---------------------------- MODULE Spec2Model ----------------------------
(***************************************************************************)
(* GST-based business assessment (streamlit_app.py).                       *)
(*                                                                         *)
(* The program is a one-way pipeline: uploaded files -> parsed tables ->   *)
(* monthly summaries -> aggregate metrics -> scheme verdicts and a loan    *)
(* assessment.  The module models                                          *)
(*   - the three classes as operators that compute what the methods        *)
(*     compute (GSTDataAnalyzer, BusinessEligibilityEngine,                *)
(*     LoanAssessmentEngine);                                              *)
(*   - main() as a state machine (specification Spec);                     *)
(*   - three further specifications that apply one method each to inputs   *)
(*     drawn from bounded sets (SpecMonthly, SpecMetrics, SpecScoring).    *)
(*                                                                         *)
(* Python floats are modelled as exact rationals <<n, d>> (d > 0, lowest   *)
(* terms); rounding of binary floating point is not modelled.  A Python    *)
(* exception leaving a method is the value Raise(e).                       *)
(***************************************************************************)
EXTENDS Integers, Sequences, FiniteSets, TLC

VARIABLES
    business_data,     \* st.session_state.business_data (the profile)
    uploaded_files,    \* the files held by st.file_uploader
    now,               \* datetime.now(), as a day number
    pc,                \* position of main() / of the applied method
    i,                 \* loop index of main()'s month loop
    monthly_analyses,  \* list of monthly summaries
    diagnostics,       \* st.error / st.warning messages shown
    exception,         \* the exception that ended the run, "none" otherwise
    dfs,               \* the three tables handed to analyze_monthly_data
    analysis,          \* the last result of analyze_monthly_data
    gst_metrics,       \* result of calculate_aggregate_metrics
    credit,            \* result of calculate_credit_score
    scheme_results,    \* result of assess_scheme_eligibility
    loan_results,      \* result of calculate_loan_eligibility
    calculator         \* the loan calculator of the panel: slider and EMI

vars == <<business_data, uploaded_files, now, pc, i, monthly_analyses,
          diagnostics, exception, dfs, analysis, gst_metrics, credit,
          scheme_results, loan_results, calculator>>

-----------------------------------------------------------------------------
(* Bounds of the model.                                                    *)

\* most files one upload holds
MaxFiles == 3

\* longest sequence of monthly summaries handed to calculate_aggregate_metrics
MaxMonths == 4

-----------------------------------------------------------------------------
(* Python values.                                                          *)

\* a method that has not run yet
NotRun == [exc |-> "notrun"]

\* an exception leaving a method
Raise(e) == [exc |-> e]

\* a method's return value
Ok(v) == [exc |-> "none", val |-> v]

Raised(r) == r.exc \notin {"none", "notrun"}

Returned(r) == r.exc = "none"

\* dict.get(key, default)
Get(d, key, default) == IF key \in DOMAIN d THEN d[key] ELSE default

Abs(n) == IF n < 0 THEN -n ELSE n

RECURSIVE GCD(_, _)
GCD(a, b) == IF b = 0 THEN a ELSE GCD(b, a % b)

\* the float n/d
Rat(n, d) == LET g == GCD(Abs(n), d) IN <<n \div g, d \div g>>

\* an int used where a float is
Whole(n) == <<n, 1>>

Floor(x) == x[1] \div x[2]

Ceil(x) == -((-x[1]) \div x[2])

\* x < y.  Against a whole number the comparison is made on the integer
\* part, so that no product leaves the machine integers.
LT(x, y) ==
    IF y[2] = 1 THEN Floor(x) < y[1]
    ELSE IF x[2] = 1 THEN x[1] < Ceil(y)
    ELSE x[1] * y[2] < y[1] * x[2]

GT(x, y) == LT(y, x)

LE(x, y) == ~LT(y, x)

GE(x, y) == ~LT(x, y)

RMin(x, y) == IF LT(y, x) THEN y ELSE x

RMax(x, y) == IF LT(x, y) THEN y ELSE x

\* x + y, over the least common denominator
Add(x, y) ==
    LET g == GCD(x[2], y[2])
    IN Rat(x[1] * (y[2] \div g) + y[1] * (x[2] \div g), (x[2] \div g) * y[2])

Sub(x, y) == Add(x, <<-y[1], y[2]>>)

\* x * y, cancelling across before multiplying
Mul(x, y) ==
    LET g1 == GCD(Abs(x[1]), y[2])
        g2 == GCD(Abs(y[1]), x[2])
    IN Rat((x[1] \div g1) * (y[1] \div g2), (x[2] \div g2) * (y[2] \div g1))

\* x / y for y > 0
Div(x, y) == Mul(x, <<y[2], y[1]>>)

RECURSIVE SumSeq(_)
SumSeq(s) == IF s = <<>> THEN 0 ELSE Head(s) + SumSeq(Tail(s))

Range(s) == {s[k] : k \in DOMAIN s}

-----------------------------------------------------------------------------
(* Text.  A str is a sequence of one-character strings.                    *)

\* the lower-case letter of each upper-case letter
LowerOf == [
    A |-> "a", B |-> "b", C |-> "c", D |-> "d", E |-> "e", F |-> "f", G |-> "g",
    H |-> "h", I |-> "i", J |-> "j", K |-> "k", L |-> "l", M |-> "m", N |-> "n",
    O |-> "o", P |-> "p", Q |-> "q", R |-> "r", S |-> "s", T |-> "t", U |-> "u",
    V |-> "v", W |-> "w", X |-> "x", Y |-> "y", Z |-> "z"]

LowerChar(c) == IF c \in DOMAIN LowerOf THEN LowerOf[c] ELSE c

\* str.lower()
Lower(s) == [k \in 1..Len(s) |-> LowerChar(s[k])]

\* sub in s
Contains(s, sub) ==
    \E k \in 0..(Len(s) - Len(sub)) : SubSeq(s, k + 1, k + Len(sub)) = sub

\* s.startswith(prefix)
StartsWith(s, prefix) ==
    Len(s) >= Len(prefix) /\ SubSeq(s, 1, Len(prefix)) = prefix

\* s.endswith(suffix)
EndsWith(s, suffix) ==
    Len(s) >= Len(suffix)
    /\ SubSeq(s, Len(s) - Len(suffix) + 1, Len(s)) = suffix

RECURSIVE LStrip(_)
LStrip(s) == IF s # <<>> /\ Head(s) = " " THEN LStrip(Tail(s)) ELSE s

RECURSIVE RStrip(_)
RStrip(s) ==
    IF s # <<>> /\ s[Len(s)] = " " THEN RStrip(SubSeq(s, 1, Len(s) - 1)) ELSE s

\* str.strip()
Strip(s) == RStrip(LStrip(s))

-----------------------------------------------------------------------------
(* Tables (pandas.DataFrame).  columns is the sequence of column names,    *)
(* rows a sequence of rows, each a sequence of cells in column order.  A   *)
(* cell is <<v>>, or <<>> for a missing value (NaN).                       *)

InvoiceValue == <<"I","n","v","o","i","c","e"," ","V","a","l","u","e">>

TaxableValue == <<"T","a","x","a","b","l","e"," ","V","a","l","u","e">>

RateCol == <<"R","a","t","e">>

GstinRecipient == <<"G","S","T","I","N","/","U","I","N"," ","o","f"," ","R","e","c","i","p","i","e","n","t">>

\* pd.DataFrame()
EmptyFrame == [columns |-> <<>>, rows |-> <<>>]

\* df.empty: an axis of length 0
IsEmpty(df) == df.columns = <<>> \/ df.rows = <<>>

\* name in df.columns
HasColumn(df, name) == \E k \in DOMAIN df.columns : df.columns[k] = name

\* df[name], for a column that is there
Column(df, name) ==
    LET k == CHOOSE k \in DOMAIN df.columns : df.columns[k] = name
    IN [r \in DOMAIN df.rows |-> df.rows[r][k]]

\* series.fillna(0)
FillNa0(series) ==
    [r \in DOMAIN series |-> IF series[r] = <<>> THEN 0 ELSE series[r][1]]

\* series.dropna().unique(), as a set
DropNaUnique(series) ==
    {series[r][1] : r \in {q \in DOMAIN series : series[q] # <<>>}}

\* (taxable.fillna(0) * rate.fillna(0) / 100).sum(), times 100
TaxTimesRate(df) ==
    LET t == FillNa0(Column(df, TaxableValue))
        r == FillNa0(Column(df, RateCol))
    IN SumSeq([k \in DOMAIN t |-> t[k] * r[k]])

\* df.columns = df.columns.str.strip()
StripColumns(df) ==
    [df EXCEPT !.columns = [k \in DOMAIN df.columns |-> Strip(df.columns[k])]]

-----------------------------------------------------------------------------
(* GSTDataAnalyzer.analyze_monthly_data                                    *)

\* the B2B block
AnalyzeB2B(b2b_df) ==
    IF IsEmpty(b2b_df)
    THEN Ok([b2b_sales |-> 0, gst |-> 0, unique_customers |-> 0, rates |-> {}])
    ELSE IF ~HasColumn(b2b_df, InvoiceValue)
    THEN Raise("KeyError")
    ELSE Ok([
        b2b_sales |-> SumSeq(FillNa0(Column(b2b_df, InvoiceValue))),
        gst |-> IF HasColumn(b2b_df, TaxableValue) /\ HasColumn(b2b_df, RateCol)
                THEN TaxTimesRate(b2b_df) ELSE 0,
        unique_customers |->
            IF HasColumn(b2b_df, GstinRecipient)
            THEN Cardinality(DropNaUnique(Column(b2b_df, GstinRecipient)))
            ELSE 0,
        rates |-> IF HasColumn(b2b_df, RateCol)
                  THEN DropNaUnique(Column(b2b_df, RateCol)) ELSE {}])

\* the B2C block
AnalyzeB2C(b2c_df) ==
    IF IsEmpty(b2c_df)
    THEN Ok([b2c_sales |-> 0, gst |-> 0, rates |-> {}])
    ELSE IF ~HasColumn(b2c_df, TaxableValue)
    THEN Raise("KeyError")
    ELSE Ok([
        b2c_sales |-> SumSeq(FillNa0(Column(b2c_df, TaxableValue))),
        gst |-> IF HasColumn(b2c_df, RateCol) THEN TaxTimesRate(b2c_df) ELSE 0,
        rates |-> IF HasColumn(b2c_df, RateCol)
                  THEN DropNaUnique(Column(b2c_df, RateCol)) ELSE {}])

\* the purchase block
AnalyzePurchases(purchase_df) ==
    IF IsEmpty(purchase_df) THEN 0
    ELSE IF HasColumn(purchase_df, TaxableValue)
    THEN SumSeq(FillNa0(Column(purchase_df, TaxableValue)))
    ELSE IF HasColumn(purchase_df, InvoiceValue)
    THEN SumSeq(FillNa0(Column(purchase_df, InvoiceValue)))
    ELSE 0

analyze_monthly_data(month_name, b2b_df, b2c_df, purchase_df) ==
    LET b2b == AnalyzeB2B(b2b_df)
        b2c == AnalyzeB2C(b2c_df)
    IN IF Raised(b2b) THEN b2b
       ELSE IF Raised(b2c) THEN b2c
       ELSE Ok([
           month |-> month_name,
           b2b_transactions |-> Len(b2b_df.rows),
           b2c_transactions |-> Len(b2c_df.rows),
           purchase_transactions |-> Len(purchase_df.rows),
           b2b_sales |-> b2b.val.b2b_sales,
           b2c_sales |-> b2c.val.b2c_sales,
           total_sales |-> b2b.val.b2b_sales + b2c.val.b2c_sales,
           total_purchases |-> AnalyzePurchases(purchase_df),
           gst_collected |-> Rat(b2b.val.gst + b2c.val.gst, 100),
           gst_paid |-> 0,
           tax_rates_used |-> b2b.val.rates \cup b2c.val.rates,
           interstate_sales |-> 0,
           intrastate_sales |-> 0,
           unique_customers |-> b2b.val.unique_customers])

-----------------------------------------------------------------------------
(* GSTDataAnalyzer.calculate_aggregate_metrics                             *)

\* the empty dict
EmptyDict == <<>>

\* not d, for a dict
IsEmptyDict(d) == DOMAIN d = {}

standard_rates == {0, 5, 12, 18, 28}

\* sum(m[field] for m in monthly_analyses)
SumField(monthly, field) ==
    SumSeq([k \in DOMAIN monthly |-> monthly[k][field]])

\* sum of the float field gst_collected
RECURSIVE SumGst(_)
SumGst(monthly) ==
    IF monthly = <<>> THEN Whole(0)
    ELSE Add(Head(monthly).gst_collected, SumGst(Tail(monthly)))

\* ProfitMarginEstimate without the clamp to [5, 25]
ProfitMarginEstimate_Unclamped(total_sales, total_purchases) ==
    IF total_sales > 0
    THEN Mul(Rat(total_sales - total_purchases, total_sales), Whole(100))
    ELSE Whole(10)

\* ProfitMarginEstimate without max(5, ...)
ProfitMarginEstimate_NoFloor(total_sales, total_purchases) ==
    IF total_sales > 0
    THEN RMin(Whole(25),
              Mul(Rat(total_sales - total_purchases, total_sales), Whole(100)))
    ELSE Whole(10)

\* max(5, min(25, (total_sales - total_purchases) / total_sales * 100))
\* if total_sales > 0 else 10
ProfitMarginEstimate(total_sales, total_purchases) ==
    IF total_sales > 0
    THEN RMax(Whole(5), RMin(Whole(25),
              Mul(Rat(total_sales - total_purchases, total_sales), Whole(100))))
    ELSE Whole(10)

\* GstComplianceScore without min(100, ...)
GstComplianceScore_NoCap(filing_frequency, uses_standard_rates) ==
    filing_frequency * 15 + (IF uses_standard_rates THEN 50 ELSE 0)

\* min(100, filing_frequency * 15 + (50 if uses_standard_rates else 0))
GstComplianceScore(filing_frequency, uses_standard_rates) ==
    LET raw == filing_frequency * 15 + (IF uses_standard_rates THEN 50 ELSE 0)
    IN IF raw < 100 THEN raw ELSE 100

calculate_aggregate_metrics(monthly) ==
    IF monthly = <<>> THEN EmptyDict
    ELSE
    LET total_sales == SumField(monthly, "total_sales")
        total_purchases == SumField(monthly, "total_purchases")
        months_of_data == Len(monthly)
        b2b_total == SumField(monthly, "b2b_sales")
        b2b_percentage ==
            IF total_sales > 0
            THEN Mul(Rat(b2b_total, total_sales), Whole(100)) ELSE Whole(0)
        filing_frequency == Len(monthly)
        all_rates == UNION {monthly[k].tax_rates_used : k \in DOMAIN monthly}
        uses_standard_rates == \A rate \in all_rates : rate \in standard_rates
    IN [annual_turnover |-> Mul(Rat(total_sales, months_of_data), Whole(12)),
        total_sales |-> total_sales,
        total_purchases |-> total_purchases,
        avg_monthly_sales |-> Rat(total_sales, Len(monthly)),
        total_gst_collected |-> SumGst(monthly),
        b2b_percentage |-> b2b_percentage,
        b2c_percentage |-> Sub(Whole(100), b2b_percentage),
        filing_frequency |-> filing_frequency,
        avg_transactions_per_month |->
            Rat(SumSeq([k \in DOMAIN monthly |->
                    monthly[k].b2b_transactions + monthly[k].b2c_transactions]),
                Len(monthly)),
        uses_standard_rates |-> uses_standard_rates,
        profit_margin_estimate |->
            ProfitMarginEstimate(total_sales, total_purchases),
        gst_compliance_score |->
            GstComplianceScore(filing_frequency, uses_standard_rates)]


-----------------------------------------------------------------------------
(* Dates.  A date string is a record: kind "ymd" is the text               *)
(* '%Y-%m-%d' of the fields y, m, d; kind "text" is text that is no date;  *)
(* kind "empty" is ''; kind "none" is None.                                *)

DateStr(y, m, d) == [kind |-> "ymd", y |-> y, m |-> m, d |-> d]

NotADate == [kind |-> "text", y |-> 0, m |-> 0, d |-> 0]

EmptyDate == [kind |-> "empty", y |-> 0, m |-> 0, d |-> 0]

NoDate == [kind |-> "none", y |-> 0, m |-> 0, d |-> 0]

IsLeap(y) == (y % 4 = 0 /\ y % 100 # 0) \/ y % 400 = 0

DaysInMonth(y, m) ==
    IF m = 2 THEN (IF IsLeap(y) THEN 29 ELSE 28)
    ELSE IF m \in {4, 6, 9, 11} THEN 30 ELSE 31

\* days from 1970-01-01 to the civil date y-m-d
DaysFromCivil(y, m, d) ==
    LET yy == IF m <= 2 THEN y - 1 ELSE y
        era == yy \div 400
        yoe == yy - era * 400
        mp == IF m > 2 THEN m - 3 ELSE m + 9
        doy == (153 * mp + 2) \div 5 + d - 1
        doe == yoe * 365 + yoe \div 4 - yoe \div 100 + doy
    IN era * 146097 + doe - 719468

\* pd.to_datetime(arg): a Timestamp (its day number), NaT, None, or raises
to_datetime(arg) ==
    IF arg.kind = "none" THEN [kind |-> "None", day |-> 0]
    ELSE IF arg.kind = "empty" THEN [kind |-> "NaT", day |-> 0]
    ELSE IF arg.kind = "ymd" /\ arg.m \in 1..12
            /\ arg.d \in 1..DaysInMonth(arg.y, arg.m)
    THEN [kind |-> "Timestamp", day |-> DaysFromCivil(arg.y, arg.m, arg.d)]
    ELSE [kind |-> "raise", day |-> 0]

-----------------------------------------------------------------------------
(* BusinessEligibilityEngine                                               *)

schemes == [
    advance_authorisation |-> [
        name |-> "Advance Authorisation Scheme (Export Incentive)",
        url |-> "https://www.dgft.gov.in/advance-authorisation"],
    epcg |-> [
        name |-> "Export Promotion Capital Goods (EPCG) Scheme",
        url |-> "https://www.dgft.gov.in/epcg"],
    startup_tax_benefits |-> [
        name |-> "Startup Tax Benefits",
        url |-> "https://startupindia.gov.in/"],
    pmmy_loans |-> [
        name |-> "MSME Loans under PMMY",
        url |-> "https://www.mudra.org.in/"],
    nsic_support |-> [
        name |-> "NSIC Marketing & Credit Support",
        url |-> "https://www.nsic.co.in/"],
    digital_lending |-> [
        name |-> "Digital Lending Using GST Data",
        url |-> "Partner with NBFCs or Fintech platforms"],
    gem_platform |-> [
        name |-> "Government e-Marketplace (GeM)",
        url |-> "https://gem.gov.in/"],
    income_tax_deduction |-> [
        name |-> "Income Tax Profit Deduction for Startups",
        url |-> "Claim deduction in Income Tax Return (ITR) filing"],
    gst_composition |-> [
        name |-> "GST Composition Scheme",
        url |-> "Opt-in via GST portal during registration or return filing"]]

Verdict(key, eligible, reason) ==
    [eligible |-> eligible, reason |-> reason,
     scheme_name |-> schemes[key].name, url |-> schemes[key].url]

ne_hill_states == {
    <<"a","r","u","n","a","c","h","a","l"," ","p","r","a","d","e","s","h">>,
    <<"a","s","s","a","m">>,
    <<"m","a","n","i","p","u","r">>,
    <<"m","e","g","h","a","l","a","y","a">>,
    <<"m","i","z","o","r","a","m">>,
    <<"n","a","g","a","l","a","n","d">>,
    <<"s","i","k","k","i","m">>,
    <<"t","r","i","p","u","r","a">>,
    <<"h","i","m","a","c","h","a","l"," ","p","r","a","d","e","s","h">>,
    <<"u","t","t","a","r","a","k","h","a","n","d">>}

\* CompositionThreshold without .lower()
CompositionThreshold_NoLower(state_text) ==
    IF \E ne_state \in ne_hill_states : Contains(state_text, ne_state)
    THEN 7500000 ELSE 15000000

\* threshold = 7500000 if any(ne_state in state ...) else 15000000
CompositionThreshold(state_text) ==
    IF \E ne_state \in ne_hill_states : Contains(Lower(state_text), ne_state)
    THEN 7500000 ELSE 15000000

AdvanceAuthorisation(business_data_) ==
    IF business_data_.business_type = "exporter"
    THEN Verdict("advance_authorisation", TRUE,
                 "Eligible as registered exporter with GST data")
    ELSE Verdict("advance_authorisation", FALSE, "Only available for exporters")

PmmyLoans(business_data_, annual_turnover) ==
    IF business_data_.business_type \in {"msme", "manufacturer", "trader"}
    THEN Verdict("pmmy_loans", TRUE,
            IF LT(annual_turnover, Whole(1000000))
            THEN "Eligible for PMMY Shishu loan based on turnover"
            ELSE IF LT(annual_turnover, Whole(5000000))
            THEN "Eligible for PMMY Kishore loan based on turnover"
            ELSE "Eligible for PMMY Tarun loan based on turnover")
    ELSE Verdict("pmmy_loans", FALSE, "Must be MSME/manufacturer/trader")

\* the startup block: a verdict, or the exception of the unguarded
\* pd.to_datetime / comparison
StartupTaxBenefits(business_data_, annual_turnover) ==
    IF business_data_.business_type = "startup"
    THEN LET incorporation_date == to_datetime(business_data_.incorporation_date)
             min_date == to_datetime(DateStr(2016, 4, 1))
         IN IF incorporation_date.kind = "raise" THEN Raise("ValueError")
            ELSE IF incorporation_date.kind = "None" THEN Raise("TypeError")
            ELSE IF incorporation_date.kind = "Timestamp"
                    /\ incorporation_date.day >= min_date.day
                    /\ LT(annual_turnover, Whole(1000000000))
            THEN Ok(Verdict("startup_tax_benefits", TRUE,
                            "Eligible startup with turnover < 100 Cr"))
            ELSE Ok(Verdict("startup_tax_benefits", FALSE,
                    "Must be incorporated after Apr 2016 with turnover < 100 Cr"))
    ELSE Ok(Verdict("startup_tax_benefits", FALSE, "Only for registered startups"))

DigitalLending(gst_compliance_score, annual_turnover) ==
    IF gst_compliance_score > 60 /\ GT(annual_turnover, Whole(500000))
    THEN Verdict("digital_lending", TRUE,
                 "Good GST compliance with sufficient turnover")
    ELSE Verdict("digital_lending", FALSE,
                 "Need better GST compliance and minimum turnover")

GemPlatform(filing_frequency) ==
    IF filing_frequency >= 3
    THEN Verdict("gem_platform", TRUE, "Regular GST filing history available")
    ELSE Verdict("gem_platform", FALSE, "Need consistent GST filing history")

GstComposition(business_data_, annual_turnover) ==
    LET threshold == CompositionThreshold(business_data_.state)
    IN IF LT(annual_turnover, Whole(threshold))
          /\ business_data_.business_type \in {"manufacturer", "trader", "restaurant"}
       THEN Verdict("gst_composition", TRUE,
                IF threshold = 7500000
                THEN "Turnover below threshold (7,500,000)"
                ELSE "Turnover below threshold (15,000,000)")
       ELSE Verdict("gst_composition", FALSE,
                "Turnover exceeds threshold or ineligible business type")

assess_scheme_eligibility(business_data_, gst_metrics_) ==
    LET annual_turnover == Get(gst_metrics_, "annual_turnover", Whole(0))
        gst_compliance_score == Get(gst_metrics_, "gst_compliance_score", 0)
        filing_frequency == Get(gst_metrics_, "filing_frequency", 0)
        startup == StartupTaxBenefits(business_data_, annual_turnover)
    IN IF Raised(startup) THEN startup
       ELSE Ok([
           advance_authorisation |-> AdvanceAuthorisation(business_data_),
           pmmy_loans |-> PmmyLoans(business_data_, annual_turnover),
           startup_tax_benefits |-> startup.val,
           digital_lending |-> DigitalLending(gst_compliance_score, annual_turnover),
           gem_platform |-> GemPlatform(filing_frequency),
           gst_composition |-> GstComposition(business_data_, annual_turnover)])

-----------------------------------------------------------------------------
(* LoanAssessmentEngine                                                    *)

base_interest_rates == [
    excellent |-> Rat(90, 10), good |-> Rat(115, 10),
    fair |-> Rat(140, 10), poor |-> Rat(175, 10)]

loan_multipliers == [
    excellent |-> Rat(30, 100), good |-> Rat(25, 100),
    fair |-> Rat(20, 100), poor |-> Rat(15, 100)]

\* GST compliance (0-200 points)
CompliancePoints(gst_compliance) ==
    IF gst_compliance * 2 < 200 THEN gst_compliance * 2 ELSE 200

\* Business turnover (0-200 points)
TurnoverPoints(annual_turnover) ==
    IF GT(annual_turnover, Whole(50000000)) THEN 200
    ELSE IF GT(annual_turnover, Whole(10000000)) THEN 150
    ELSE IF GT(annual_turnover, Whole(5000000)) THEN 100
    ELSE IF GT(annual_turnover, Whole(1000000)) THEN 75
    ELSE IF GT(annual_turnover, Whole(500000)) THEN 50
    ELSE 0

\* Filing consistency (0-100 points)
FilingPoints(filing_frequency) ==
    IF filing_frequency >= 12 THEN 100
    ELSE IF filing_frequency >= 6 THEN 75
    ELSE IF filing_frequency >= 3 THEN 50
    ELSE IF filing_frequency >= 1 THEN 25
    ELSE 0

\* VintagePoints without the except branch's 25
VintagePoints_NoFallback(business_data_, today) ==
    LET incorporation_date == to_datetime(business_data_.incorporation_date)
    IN IF incorporation_date.kind \in {"raise", "None", "NaT"} THEN 0
       ELSE LET years_in_business ==
                    Rat((today - incorporation_date.day) * 100, 36525)
            IN IF GT(years_in_business, Whole(5)) THEN 100
               ELSE IF GT(years_in_business, Whole(3)) THEN 75
               ELSE IF GT(years_in_business, Whole(1)) THEN 50
               ELSE IF GT(years_in_business, Rat(1, 2)) THEN 25
               ELSE 0

\* Business vintage (0-100 points); today is datetime.now() as a day number.
\* A date that raises, or None (the subtraction raises), takes the except
\* branch; NaT makes every comparison false.
VintagePoints(business_data_, today) ==
    LET incorporation_date == to_datetime(business_data_.incorporation_date)
    IN IF incorporation_date.kind \in {"raise", "None"} THEN 25
       ELSE IF incorporation_date.kind = "NaT" THEN 0
       ELSE LET years_in_business ==
                    Rat((today - incorporation_date.day) * 100, 36525)
            IN IF GT(years_in_business, Whole(5)) THEN 100
               ELSE IF GT(years_in_business, Whole(3)) THEN 75
               ELSE IF GT(years_in_business, Whole(1)) THEN 50
               ELSE IF GT(years_in_business, Rat(1, 2)) THEN 25
               ELSE 0

\* Business model stability (0-100 points)
StabilityPoints(b2b_percentage) ==
    IF GT(b2b_percentage, Whole(70)) THEN 100
    ELSE IF GT(b2b_percentage, Whole(40)) THEN 75
    ELSE IF GT(b2b_percentage, Whole(10)) THEN 50
    ELSE 25

\* CapScore without the cap
CapScore_NoCap(score) == score

\* score = min(score, 900)
CapScore(score) == IF score < 900 THEN score ELSE 900

CreditGrade(score) ==
    IF score >= 750 THEN "excellent"
    ELSE IF score >= 650 THEN "good"
    ELSE IF score >= 500 THEN "fair"
    ELSE "poor"

calculate_credit_score(business_data_, gst_metrics_, today) ==
    LET score == CapScore(
            300
            + CompliancePoints(Get(gst_metrics_, "gst_compliance_score", 0))
            + TurnoverPoints(Get(gst_metrics_, "annual_turnover", Whole(0)))
            + FilingPoints(Get(gst_metrics_, "filing_frequency", 0))
            + VintagePoints(business_data_, today)
            + StabilityPoints(Get(gst_metrics_, "b2b_percentage", Whole(0))))
    IN [score |-> score, grade |-> CreditGrade(score)]

\* MaxLoanAmount without the business-type adjustment
MaxLoanAmount_NoTypeAdjust(annual_turnover, credit_grade, business_type) ==
    Mul(annual_turnover, loan_multipliers[credit_grade])

\* max_loan_amount, with the business-type adjustment
MaxLoanAmount(annual_turnover, credit_grade, business_type) ==
    LET amount == Mul(annual_turnover, loan_multipliers[credit_grade])
    IN IF business_type = "startup" THEN Mul(amount, Rat(8, 10))
       ELSE IF business_type = "exporter" THEN Mul(amount, Rat(12, 10))
       ELSE amount

\* FinalInterestRate without max(base_rate, 8.5)
FinalInterestRate_NoFloor(credit_grade, business_type, profit_margin, gst_compliance) ==
    LET r0 == base_interest_rates[credit_grade]
        r1 == IF business_type = "startup" THEN Add(r0, Rat(15, 10))
              ELSE IF business_type = "exporter" THEN Sub(r0, Rat(5, 10))
              ELSE r0
        r2 == IF GT(profit_margin, Whole(20)) THEN Sub(r1, Rat(5, 10))
              ELSE IF LT(profit_margin, Whole(5)) THEN Add(r1, Whole(1))
              ELSE r1
    IN IF gst_compliance > 80 THEN Sub(r2, Rat(5, 10))
       ELSE IF gst_compliance < 50 THEN Add(r2, Whole(1))
       ELSE r2

\* final_interest_rate = max(base_rate, 8.5), after the adjustments
FinalInterestRate(credit_grade, business_type, profit_margin, gst_compliance) ==
    LET r0 == base_interest_rates[credit_grade]
        r1 == IF business_type = "startup" THEN Add(r0, Rat(15, 10))
              ELSE IF business_type = "exporter" THEN Sub(r0, Rat(5, 10))
              ELSE r0
        r2 == IF GT(profit_margin, Whole(20)) THEN Sub(r1, Rat(5, 10))
              ELSE IF LT(profit_margin, Whole(5)) THEN Add(r1, Whole(1))
              ELSE r1
        r3 == IF gst_compliance > 80 THEN Sub(r2, Rat(5, 10))
              ELSE IF gst_compliance < 50 THEN Add(r2, Whole(1))
              ELSE r2
    IN RMax(r3, Rat(85, 10))

MaxTenureYears(credit_score) ==
    IF credit_score > 700 THEN 7
    ELSE IF credit_score > 600 THEN 5
    ELSE 3

\* Emi taking the zero-rate branch, emi = principal / tenure_months
Emi_ZeroRateBranch(principal, monthly_rate, tenure_months) ==
    [formula |-> "flat", principal |-> principal,
     monthly_rate |-> monthly_rate, tenure_months |-> tenure_months]

\* The EMI.  The value of (1 + r)^n is not computed: the record names the
\* branch taken and the operands.
Emi(principal, monthly_rate, tenure_months) ==
    IF GT(monthly_rate, Whole(0))
    THEN [formula |-> "amortizing", principal |-> principal,
          monthly_rate |-> monthly_rate, tenure_months |-> tenure_months]
    ELSE [formula |-> "flat", principal |-> principal,
          monthly_rate |-> monthly_rate, tenure_months |-> tenure_months]

\* total_interest = emi * tenure_months - recommended_amount, over the
\* uncomputed EMI
TotalInterest(emi, tenure_months, principal) ==
    [emi |-> emi, times |-> tenure_months, minus |-> principal]

\* approval_probability = min(95, sum(approval_factors))
ApprovalProbability(credit_score, gst_compliance, annual_turnover, profit_margin, filing_frequency) ==
    LET f1 == RMin(Whole(30), Rat(credit_score, 25))
        f2 == RMin(Whole(25), Rat(gst_compliance, 4))
        f3 == RMin(Whole(20), Div(annual_turnover, Whole(250000)))
        f4 == RMin(Whole(15), profit_margin)
        f5 == IF filing_frequency >= 6 THEN Whole(10) ELSE Whole(5)
    IN RMin(Whole(95), Add(Add(Add(Add(f1, f2), f3), f4), f5))

calculate_loan_eligibility(business_data_, gst_metrics_, today) ==
    LET cs == calculate_credit_score(business_data_, gst_metrics_, today)
        annual_turnover == Get(gst_metrics_, "annual_turnover", Whole(0))
        profit_margin == Get(gst_metrics_, "profit_margin_estimate", Whole(10))
        business_type == Get(business_data_, "business_type", "")
        gst_compliance == Get(gst_metrics_, "gst_compliance_score", 0)
        max_loan_amount == MaxLoanAmount(annual_turnover, cs.grade, business_type)
        final_interest_rate ==
            FinalInterestRate(cs.grade, business_type, profit_margin, gst_compliance)
        max_tenure_years == MaxTenureYears(cs.score)
        recommended_amount == RMin(max_loan_amount, Whole(1000000))
        monthly_rate == Div(final_interest_rate, Whole(12 * 100))
        tenure_months == max_tenure_years * 12
    IN [credit_score |-> cs.score,
        credit_grade |-> cs.grade,
        max_loan_amount |-> max_loan_amount,
        recommended_amount |-> recommended_amount,
        interest_rate |-> final_interest_rate,
        max_tenure_years |-> max_tenure_years,
        monthly_emi |-> Emi(recommended_amount, monthly_rate, tenure_months),
        total_interest |->
            TotalInterest(Emi(recommended_amount, monthly_rate, tenure_months),
                          tenure_months, recommended_amount),
        approval_probability |->
            ApprovalProbability(cs.score, gst_compliance, annual_turnover,
                profit_margin, Get(gst_metrics_, "filing_frequency", 0)),
        annual_turnover |-> annual_turnover,
        profit_margin |-> profit_margin]


-----------------------------------------------------------------------------
(* Inputs the specifications draw from.                                    *)

\* the form's initial values (selectbox, date_input and text_input defaults)
DefaultProfile ==
    [business_type |-> "msme", incorporation_date |-> DateStr(2020, 1, 1),
     state |-> <<>>]

BusinessTypes ==
    {"msme", "exporter", "startup", "manufacturer", "trader", "restaurant"}

\* the columns analyze_monthly_data reads, in file order
AllColumns == <<GstinRecipient, InvoiceValue, TaxableValue, RateCol>>

\* rows of a sales or purchase file, cells in the order of AllColumns; the
\* last row has missing values
SampleRows == <<
    << <<"27AAAAA0000A1Z5">>, <<118000>>, <<100000>>, <<18>> >>,
    << <<"29BBBBB1111B2Z6">>, <<52500>>, <<50000>>, <<5>> >>,
    << <<>>, <<>>, <<20000>>, <<>> >> >>

\* the table holding the columns cols of rows, in file order
MakeTable(cols, rows) ==
    LET idx == SelectSeq(<<1, 2, 3, 4>>, LAMBDA k : AllColumns[k] \in cols)
    IN [columns |-> [j \in DOMAIN idx |-> AllColumns[idx[j]]],
        rows |-> [r \in DOMAIN rows |-> [j \in DOMAIN idx |-> rows[r][idx[j]]]]]

\* every non-empty table over a subset of the consumed columns
ColumnTables == {MakeTable(cols, SampleRows) : cols \in SUBSET Range(AllColumns)}

Unused == [unused |-> TRUE]

-----------------------------------------------------------------------------
(* SpecMonthly: analyze_monthly_data applied to one month's tables.        *)

InitMonthly ==
    /\ dfs \in [b2b : ColumnTables \cup {EmptyFrame},
                b2c : ColumnTables \cup {EmptyFrame},
                purchase : ColumnTables \cup {EmptyFrame}]
    /\ pc = "call"
    /\ analysis = NotRun
    /\ business_data = DefaultProfile
    /\ uploaded_files = <<>>
    /\ now = 0
    /\ i = 0
    /\ monthly_analyses = <<>>
    /\ diagnostics = {}
    /\ exception = "none"
    /\ gst_metrics = NotRun
    /\ credit = NotRun
    /\ scheme_results = NotRun
    /\ loan_results = NotRun
    /\ calculator = NotRun

ApplyAnalyze ==
    /\ pc = "call"
    /\ analysis' = analyze_monthly_data(1, dfs.b2b, dfs.b2c, dfs.purchase)
    /\ pc' = "done"
    /\ UNCHANGED <<business_data, uploaded_files, now, i, monthly_analyses,
                   diagnostics, exception, dfs, gst_metrics, credit,
                   scheme_results, loan_results, calculator>>

NextMonthly == ApplyAnalyze

SpecMonthly == InitMonthly /\ [][NextMonthly]_vars


-----------------------------------------------------------------------------
(* SpecMetrics: calculate_aggregate_metrics applied to a sequence of       *)
(* monthly summaries, each the summary of one month's tables.              *)

PurchaseRows == <<
    << <<"24CCCCC2222C3Z7">>, <<177000>>, <<150000>>, <<18>> >> >>

\* a B2C file declaring a rate outside the standard set
NonStandardRows == <<
    << <<>>, <<>>, <<40000>>, <<3>> >> >>

\* one month's tables: sales at standard rates; nothing; purchases only;
\* sales at a non-standard rate
MonthInputs == {
    [b2b |-> MakeTable(Range(AllColumns), SampleRows), b2c |-> EmptyFrame,
     purchase |-> EmptyFrame],
    [b2b |-> EmptyFrame, b2c |-> EmptyFrame, purchase |-> EmptyFrame],
    [b2b |-> EmptyFrame, b2c |-> EmptyFrame,
     purchase |-> MakeTable(Range(AllColumns), PurchaseRows)],
    [b2b |-> EmptyFrame,
     b2c |-> MakeTable({TaxableValue, RateCol}, NonStandardRows),
     purchase |-> EmptyFrame]}

InitMetrics ==
    /\ \E n \in 0..MaxMonths : \E ins \in [1..n -> MonthInputs] :
          monthly_analyses =
              [k \in 1..n |->
                  analyze_monthly_data(k, ins[k].b2b, ins[k].b2c,
                                       ins[k].purchase).val]
    /\ pc = "call"
    /\ gst_metrics = NotRun
    /\ dfs = Unused
    /\ analysis = NotRun
    /\ business_data = DefaultProfile
    /\ uploaded_files = <<>>
    /\ now = 0
    /\ i = 0
    /\ diagnostics = {}
    /\ exception = "none"
    /\ credit = NotRun
    /\ scheme_results = NotRun
    /\ loan_results = NotRun
    /\ calculator = NotRun

ApplyAggregate ==
    /\ pc = "call"
    /\ gst_metrics' = calculate_aggregate_metrics(monthly_analyses)
    /\ pc' = "done"
    /\ UNCHANGED <<business_data, uploaded_files, now, i, monthly_analyses,
                   diagnostics, exception, dfs, analysis, credit,
                   scheme_results, loan_results, calculator>>

NextMetrics == ApplyAggregate

SpecMetrics == InitMetrics /\ [][NextMetrics]_vars


-----------------------------------------------------------------------------
(* Inputs of the two engines: profiles and metrics records.                *)

Sikkim == <<"S","i","k","k","i","m">>

Gujarat == <<"G","u","j","a","r","a","t">>

NorthAssam == <<"N","o","r","t","h"," ","A","S","S","A","M">>

MakeProfile(business_type, incorporation_date, state_text) ==
    [business_type |-> business_type, incorporation_date |-> incorporation_date,
     state |-> state_text]

\* a metrics record with the five fields the engines read set as given; the
\* fields they do not read follow from those where they can
MakeMetrics(annual_turnover, gst_compliance_score, filing_frequency, b2b_percentage, profit_margin_estimate) ==
    [annual_turnover |-> annual_turnover,
     total_sales |-> 0,
     total_purchases |-> 0,
     avg_monthly_sales |-> Div(annual_turnover, Whole(12)),
     total_gst_collected |-> Whole(0),
     b2b_percentage |-> b2b_percentage,
     b2c_percentage |-> Sub(Whole(100), b2b_percentage),
     filing_frequency |-> filing_frequency,
     avg_transactions_per_month |-> Whole(0),
     uses_standard_rates |-> TRUE,
     profit_margin_estimate |-> profit_margin_estimate,
     gst_compliance_score |-> gst_compliance_score]

\* the values every specification leaves alone
IdlePipeline ==
    /\ uploaded_files = <<>>
    /\ i = 0
    /\ monthly_analyses = <<>>
    /\ diagnostics = {}
    /\ exception = "none"
    /\ dfs = Unused
    /\ analysis = NotRun
    /\ calculator = NotRun

-----------------------------------------------------------------------------
(* SpecEligibility: assess_scheme_eligibility applied to a profile and a   *)
(* metrics record.                                                         *)

EligibilityDates ==
    {DateStr(2015, 1, 1), DateStr(2016, 3, 31), DateStr(2016, 4, 1),
     DateStr(2021, 6, 1), DateStr(2021, 2, 30), NotADate, EmptyDate, NoDate}

EligibilityTurnovers ==
    {0, 500000, 500001, 6000000, 7500000, 15000000, 999999999, 1000000000}

InitEligibility ==
    /\ business_data \in
          {MakeProfile(t, d, st) : t \in BusinessTypes, d \in EligibilityDates,
                                   st \in {Sikkim, Gujarat, NorthAssam, <<>>}}
    /\ gst_metrics \in
          {MakeMetrics(Whole(a), c, f, Whole(50), Whole(10)) :
              a \in EligibilityTurnovers, c \in {15, 60, 61}, f \in {2, 3}}
    /\ now = 0
    /\ pc = "call"
    /\ credit = NotRun
    /\ scheme_results = NotRun
    /\ loan_results = NotRun
    /\ IdlePipeline

ApplyEligibility ==
    /\ pc = "call"
    /\ scheme_results' = assess_scheme_eligibility(business_data, gst_metrics)
    /\ pc' = "done"
    /\ UNCHANGED <<business_data, uploaded_files, now, i, monthly_analyses,
                   diagnostics, exception, dfs, analysis, gst_metrics, credit,
                   loan_results, calculator>>

NextEligibility == ApplyEligibility

SpecEligibility == InitEligibility /\ [][NextEligibility]_vars

-----------------------------------------------------------------------------
(* SpecCredit: calculate_credit_score applied to a profile and a metrics   *)
(* record, at a current date.                                              *)

CreditDates ==
    {DateStr(2015, 1, 1), DateStr(2016, 4, 1), DateStr(2021, 6, 1),
     DateStr(2023, 6, 1), DateStr(2024, 4, 1), DateStr(2024, 12, 1),
     DateStr(2030, 1, 1), DateStr(2021, 2, 30), NotADate, EmptyDate, NoDate}

\* values of datetime.now()
Nows == {DaysFromCivil(2025, 1, 1), DaysFromCivil(2026, 11, 6)}

InitCredit ==
    /\ business_data \in {MakeProfile("msme", d, <<>>) : d \in CreditDates}
    /\ gst_metrics \in
          {MakeMetrics(Whole(a), c, f, Whole(b), Whole(10)) :
              a \in {0, 500001, 1000001, 5000001, 10000001, 50000001},
              c \in {0, 15, 65, 100}, f \in {0, 1, 3, 6, 12},
              b \in {0, 25, 50, 100}}
    /\ now \in Nows
    /\ pc = "call"
    /\ credit = NotRun
    /\ scheme_results = NotRun
    /\ loan_results = NotRun
    /\ IdlePipeline

ApplyCreditScore ==
    /\ pc = "call"
    /\ credit' = calculate_credit_score(business_data, gst_metrics, now)
    /\ pc' = "done"
    /\ UNCHANGED <<business_data, uploaded_files, now, i, monthly_analyses,
                   diagnostics, exception, dfs, analysis, gst_metrics,
                   scheme_results, loan_results, calculator>>

NextCredit == ApplyCreditScore

SpecCredit == InitCredit /\ [][NextCredit]_vars

-----------------------------------------------------------------------------
(* SpecLoan: calculate_loan_eligibility applied to a profile and a metrics *)
(* record, at a current date.                                              *)

InitLoan ==
    /\ business_data \in
          {MakeProfile(t, d, <<>>) :
              t \in BusinessTypes,
              d \in {DateStr(2015, 1, 1), DateStr(2024, 12, 1), NotADate}}
    /\ gst_metrics \in
          {MakeMetrics(Whole(a), c, f, Whole(b), m) :
              a \in {0, 600000, 6000000, 60000000},
              c \in {15, 65, 100}, f \in {1, 12}, b \in {0, 100},
              m \in {Whole(3), Whole(10), Rat(41, 2), Whole(25)}}
    /\ now \in Nows
    /\ pc = "call"
    /\ credit = NotRun
    /\ scheme_results = NotRun
    /\ loan_results = NotRun
    /\ IdlePipeline

ApplyLoanEligibility ==
    /\ pc = "call"
    /\ loan_results' = calculate_loan_eligibility(business_data, gst_metrics, now)
    /\ pc' = "done"
    /\ UNCHANGED <<business_data, uploaded_files, now, i, monthly_analyses,
                   diagnostics, exception, dfs, analysis, gst_metrics, credit,
                   scheme_results, calculator>>

NextLoan == ApplyLoanEligibility

SpecLoan == InitLoan /\ [][NextLoan]_vars

-----------------------------------------------------------------------------
(* SpecLoanTwice: calculate_loan_eligibility invoked twice with the same   *)
(* profile and the same metrics, the clock read by datetime.now() moving   *)
(* between the two invocations.                                            *)

InitLoanTwice == InitLoan

FirstInvocation ==
    /\ pc = "call"
    /\ loan_results' = calculate_loan_eligibility(business_data, gst_metrics, now)
    /\ pc' = "once"
    /\ UNCHANGED <<business_data, uploaded_files, now, i, monthly_analyses,
                   diagnostics, exception, dfs, analysis, gst_metrics, credit,
                   scheme_results, calculator>>

\* time passes between the invocations
ClockAdvances ==
    /\ pc = "once"
    /\ now' \in {t \in Nows : t >= now}
    /\ pc' = "again"
    /\ UNCHANGED <<business_data, uploaded_files, i, monthly_analyses,
                   diagnostics, exception, dfs, analysis, gst_metrics, credit,
                   scheme_results, loan_results, calculator>>

SecondInvocation ==
    /\ pc = "again"
    /\ loan_results' = calculate_loan_eligibility(business_data, gst_metrics, now)
    /\ pc' = "done"
    /\ UNCHANGED <<business_data, uploaded_files, now, i, monthly_analyses,
                   diagnostics, exception, dfs, analysis, gst_metrics, credit,
                   scheme_results, calculator>>

NextLoanTwice == FirstInvocation \/ ClockAdvances \/ SecondInvocation

SpecLoanTwice == InitLoanTwice /\ [][NextLoanTwice]_vars

\* C12: the loan assessment is pure and deterministic: two invocations of
\* calculate_loan_eligibility with the same profile and the same metrics
\* return identical records, whatever else differs between them.
C12_Deterministic ==
    [][pc = "again" => loan_results' = loan_results]_vars



-----------------------------------------------------------------------------
(* Properties of calculate_credit_score (SpecCredit).                      *)

\* C1: for every profile and metrics record, an unparseable or future
\* incorporation date included, calculate_credit_score returns an integer
\* credit score s with 300 <= s <= 900.
C1_CreditScoreInRange ==
    pc = "done" => credit.score \in 300..900

\* an unparseable date with the five components summing past the cap
C1_Witness ==
    /\ pc = "done"
    /\ business_data.incorporation_date = NotADate
    /\ gst_metrics.gst_compliance_score = 100
    /\ gst_metrics.annual_turnover = Whole(50000001)
    /\ gst_metrics.filing_frequency = 12
    /\ credit.score = 900

\* the incorporation date is missing (None) or is text pd.to_datetime rejects
MissingOrUnparseable(date) ==
    \/ date = NoDate
    \/ date = NotADate
    \/ date.kind = "ymd" /\ date.m = 2 /\ date.d = 30

-----------------------------------------------------------------------------
(* Properties of assess_scheme_eligibility (SpecEligibility).              *)

\* C2: the mapping assess_scheme_eligibility returns has exactly one verdict
\* for every key of the scheme catalog (all nine keys of self.schemes) and no
\* other key.
C2_TotalOverCatalog ==
    (pc = "done" /\ Returned(scheme_results))
        => DOMAIN scheme_results.val = DOMAIN schemes

\* C3: when business_type is "startup" and the incorporation date cannot be
\* parsed, assess_scheme_eligibility does not raise: it returns verdicts and
\* startup_tax_benefits.eligible is false.
C3_UnparseableDateNoCrash ==
    (/\ pc = "done"
     /\ business_data.business_type = "startup"
     /\ business_data.incorporation_date \in {NotADate, DateStr(2021, 2, 30)})
        => /\ Returned(scheme_results)
           /\ ~scheme_results.val.startup_tax_benefits.eligible

\* the incorporation date is text of the form '%Y-%m-%d' naming a day on or
\* after 2016-04-01
OnOrAfterCutoff(date) ==
    /\ date.kind = "ymd"
    /\ date.m \in 1..12
    /\ date.d \in 1..31
    /\ \/ date.y > 2016
       \/ date.y = 2016 /\ date.m >= 4

\* the rule table of the six evaluated schemes, on integer turnovers
RuleTable(profile, metrics) ==
    LET t == profile.business_type
        turnover == metrics.annual_turnover[1]
        special == profile.state \in {Sikkim, NorthAssam}
    IN [advance_authorisation |-> t = "exporter",
        pmmy_loans |-> t \in {"msme", "manufacturer", "trader"},
        startup_tax_benefits |->
            /\ t = "startup"
            /\ OnOrAfterCutoff(profile.incorporation_date)
            /\ turnover < 1000000000,
        digital_lending |->
            metrics.gst_compliance_score > 60 /\ turnover > 500000,
        gem_platform |-> metrics.filing_frequency >= 3,
        gst_composition |->
            /\ t \in {"manufacturer", "trader", "restaurant"}
            /\ turnover < (IF special THEN 7500000 ELSE 15000000)]

\* C7: the eligible flag of each of the six evaluated schemes equals the rule
\* table.  The evaluator returns for every profile whose incorporation date
\* parses, and whenever it returns the six flags are those of the table.
C7_RuleTable ==
    pc = "done" =>
        /\ to_datetime(business_data.incorporation_date).kind = "Timestamp"
              => Returned(scheme_results)
        /\ Returned(scheme_results) =>
              \A key \in DOMAIN RuleTable(business_data, gst_metrics) :
                  scheme_results.val[key].eligible
                      = RuleTable(business_data, gst_metrics)[key]

\* the Sikkim scenario: a trader with turnover 6,000,000 is under the
\* special-category threshold
C7_Witness ==
    /\ pc = "done"
    /\ business_data.business_type = "trader"
    /\ business_data.state = Sikkim
    /\ gst_metrics.annual_turnover = Whole(6000000)
    /\ Returned(scheme_results)
    /\ scheme_results.val.gst_composition.eligible

-----------------------------------------------------------------------------
(* Properties of analyze_monthly_data (SpecMonthly).                       *)

\* C4: analyze_monthly_data never fails because a column is missing: for
\* every combination of present and absent consumed columns in non-empty
\* tables it returns a summary in which the sub-computation that needed the
\* missing column contributes zero.
C4_MissingColumnSkipped ==
    pc = "done" =>
        /\ Returned(analysis)
        /\ (~IsEmpty(dfs.b2b) /\ ~HasColumn(dfs.b2b, InvoiceValue))
              => analysis.val.b2b_sales = 0
        /\ (~IsEmpty(dfs.b2c) /\ ~HasColumn(dfs.b2c, TaxableValue))
              => analysis.val.b2c_sales = 0
        /\ (/\ ~HasColumn(dfs.purchase, TaxableValue)
            /\ ~HasColumn(dfs.purchase, InvoiceValue))
              => analysis.val.total_purchases = 0

-----------------------------------------------------------------------------
(* Properties of calculate_aggregate_metrics (SpecMetrics).                *)

\* every tax rate observed in the summaries is a standard rate
AllRatesStandard ==
    \A k \in DOMAIN monthly_analyses :
        monthly_analyses[k].tax_rates_used \subseteq {0, 5, 12, 18, 28}

\* C8: for every non-empty sequence of monthly summaries,
\* gst_compliance_score equals min(100, 15 * filing_frequency + (50 if every
\* observed tax rate is in {0,5,12,18,28} else 0)) and lies in [0,100].
C8_ComplianceScore ==
    (pc = "done" /\ monthly_analyses # <<>>) =>
        LET raw == 15 * Len(monthly_analyses)
                   + (IF AllRatesStandard THEN 50 ELSE 0)
        IN /\ gst_metrics.filing_frequency = Len(monthly_analyses)
           /\ raw <= 100 => gst_metrics.gst_compliance_score = raw
           /\ raw > 100 => gst_metrics.gst_compliance_score = 100
           /\ gst_metrics.gst_compliance_score \in 0..100

\* four months at standard rates: 15 * 4 + 50 is past the cap
C8_Witness ==
    /\ pc = "done"
    /\ Len(monthly_analyses) = 4
    /\ AllRatesStandard
    /\ gst_metrics.gst_compliance_score = 100

\* C9: for every non-empty sequence of monthly summaries with non-negative
\* totals, profit_margin_estimate is the clamp to [5,25] of
\* (total_sales - total_purchases) / total_sales * 100 when total_sales > 0
\* and exactly 10 when total_sales = 0.
C9_ProfitMargin ==
    (pc = "done" /\ monthly_analyses # <<>>) =>
        LET ts == gst_metrics.total_sales
            tp == gst_metrics.total_purchases
            pm == gst_metrics.profit_margin_estimate
        IN /\ ts >= 0 /\ tp >= 0
           /\ ts = 0 => pm = <<10, 1>>
           /\ ts > 0 =>
                /\ pm[1] >= 5 * pm[2] /\ pm[1] <= 25 * pm[2]
                /\ (ts - tp) * 100 < 5 * ts => pm = <<5, 1>>
                /\ (ts - tp) * 100 > 25 * ts => pm = <<25, 1>>
                /\ ((ts - tp) * 100 >= 5 * ts /\ (ts - tp) * 100 <= 25 * ts)
                      => pm[1] * ts = (ts - tp) * 100 * pm[2]

\* purchases above sales: the margin is negative and clamps to 5
C9_Witness ==
    /\ pc = "done"
    /\ monthly_analyses # <<>>
    /\ gst_metrics.total_sales > 0
    /\ gst_metrics.total_purchases > gst_metrics.total_sales
    /\ gst_metrics.profit_margin_estimate = <<5, 1>>

-----------------------------------------------------------------------------
(* Properties of calculate_loan_eligibility (SpecLoan).                    *)

\* the interest rate before the floor, in tenths of a percent
UnflooredRateTenths ==
    LET grade == loan_results.credit_grade
        t == business_data.business_type
        pm == gst_metrics.profit_margin_estimate
        c == gst_metrics.gst_compliance_score
    IN (IF grade = "excellent" THEN 90 ELSE IF grade = "good" THEN 115
        ELSE IF grade = "fair" THEN 140 ELSE 175)
       + (IF t = "startup" THEN 15 ELSE IF t = "exporter" THEN -5 ELSE 0)
       + (IF pm[1] > 20 * pm[2] THEN -5 ELSE IF pm[1] < 5 * pm[2] THEN 10 ELSE 0)
       + (IF c > 80 THEN -5 ELSE IF c < 50 THEN 10 ELSE 0)

\* C10: the interest rate returned by calculate_loan_eligibility equals
\* max(8.5, base[grade] + type adjustment + margin adjustment + compliance
\* adjustment); in particular it is never below 8.5.
C10_InterestRate ==
    pc = "done" =>
        LET rate == loan_results.interest_rate
        IN /\ rate[1] * 10 >= 85 * rate[2]
           /\ UnflooredRateTenths >= 85
                 => rate[1] * 10 = UnflooredRateTenths * rate[2]
           /\ UnflooredRateTenths < 85 => rate = <<17, 2>>

\* an excellent exporter with margin above 20 and compliance above 80: the
\* adjustments reach 7.5 and the floor applies
C10_Witness ==
    /\ pc = "done"
    /\ loan_results.credit_grade = "excellent"
    /\ business_data.business_type = "exporter"
    /\ UnflooredRateTenths = 75
    /\ loan_results.interest_rate = <<17, 2>>

\* the grade of a score, in twentieths of the turnover lent:
\* 0.30, 0.25, 0.20, 0.15
MultiplierTwentieths(score) ==
    IF score >= 750 THEN 6
    ELSE IF score >= 650 THEN 5
    ELSE IF score >= 500 THEN 4
    ELSE 3

\* the business-type factor in fifths: 0.8, 1.2 or 1
TypeFifths(business_type) ==
    IF business_type = "startup" THEN 4
    ELSE IF business_type = "exporter" THEN 6
    ELSE 5

\* C11: for every profile and metrics, max_loan_amount equals
\* annual_turnover * multiplier[grade] (grade excellent from 750, good from
\* 650, fair from 500, else poor; multipliers 0.30, 0.25, 0.20, 0.15), times
\* 0.8 for a startup or 1.2 for an exporter, and recommended_amount equals
\* min(max_loan_amount, 1,000,000), so it never exceeds the ceiling.
\* Turnovers are whole multiples of 100, which keeps the products whole.
C11_LoanCeiling ==
    pc = "done" =>
        LET score == loan_results.credit_score
            turnover == gst_metrics.annual_turnover[1]
            ceiling == loan_results.max_loan_amount
            recommended == loan_results.recommended_amount
        IN /\ loan_results.credit_grade
                = (IF score >= 750 THEN "excellent"
                   ELSE IF score >= 650 THEN "good"
                   ELSE IF score >= 500 THEN "fair"
                   ELSE "poor")
           /\ turnover % 100 = 0
           /\ ceiling = <<(turnover \div 100) * MultiplierTwentieths(score)
                              * TypeFifths(business_data.business_type), 1>>
           /\ ceiling[1] <= 1000000 => recommended = ceiling
           /\ ceiling[1] > 1000000 => recommended = <<1000000, 1>>
           /\ recommended[1] <= ceiling[1]

\* an excellent exporter with turnover 6,000,000: the ceiling is
\* 6,000,000 * 0.30 * 1.2 and the recommendation stops at 1,000,000
C11_Witness ==
    /\ pc = "done"
    /\ business_data.business_type = "exporter"
    /\ loan_results.credit_grade = "excellent"
    /\ gst_metrics.annual_turnover = <<6000000, 1>>
    /\ loan_results.max_loan_amount = <<2160000, 1>>
    /\ loan_results.recommended_amount = <<1000000, 1>>


-----------------------------------------------------------------------------
(* Uploaded files.  A file is a name and a content.  The content is        *)
(*   encoding  "utf8" when bytes.decode('utf-8') succeeds, else "binary";  *)
(*   format    "csv"    text pd.read_csv parses into table,                *)
(*             "badcsv" text pd.read_csv rejects (an empty file, ragged    *)
(*                      lines),                                            *)
(*             "xlsx"   a workbook pd.read_excel parses into table,        *)
(*             "junk"   bytes that are neither;                            *)
(*   table     the table as the reader returns it, header as written.      *)

CsvContent(table) == [encoding |-> "utf8", format |-> "csv", table |-> table]

BadCsvContent == [encoding |-> "utf8", format |-> "badcsv", table |-> EmptyFrame]

XlsxContent(table) == [encoding |-> "binary", format |-> "xlsx", table |-> table]

\* file.read().decode('utf-8')
Decode(content) ==
    IF content.encoding = "utf8" THEN Ok(content) ELSE Raise("UnicodeDecodeError")

\* pd.read_csv(io.StringIO(file_content))
ReadCsv(content) ==
    IF content.format = "csv" THEN Ok(content.table) ELSE Raise("ParserError")

\* pd.read_excel(...)
ReadExcel(content) ==
    IF content.format = "xlsx" THEN Ok(content.table) ELSE Raise("ValueError")

\* file_content.startswith('GSTIN'): the text of a CSV starts with its
\* first column name
StartsWithGstin(content) ==
    /\ content.format = "csv"
    /\ content.table.columns # <<>>
    /\ StartsWith(content.table.columns[1], <<"G","S","T","I","N">>)

\* the parsers return the table and the diagnostic shown, "" for none

parse_b2b_file(file_content) ==
    LET r == ReadCsv(file_content)
    IN IF Returned(r)
       THEN [df |-> StripColumns(r.val), diagnostic |-> ""]
       ELSE [df |-> EmptyFrame, diagnostic |-> "Error parsing B2B file"]

parse_b2c_file(file_content) ==
    LET r == ReadCsv(file_content)
    IN IF Returned(r)
       THEN [df |-> StripColumns(r.val), diagnostic |-> ""]
       ELSE [df |-> EmptyFrame, diagnostic |-> "Error parsing B2C file"]

\* text that starts with GSTIN is read as CSV; any other text is handed to
\* pd.read_excel as bytes, which succeeds only on a workbook
parse_purchase_file(file_content) ==
    LET r == IF StartsWithGstin(file_content) THEN ReadCsv(file_content)
             ELSE ReadExcel(file_content)
    IN IF Returned(r)
       THEN [df |-> r.val, diagnostic |-> ""]
       ELSE [df |-> EmptyFrame, diagnostic |-> "Could not parse purchase file"]

\* main(): the purchase branch of the month loop, with its try/except
ReadPurchaseFile(file) ==
    IF EndsWith(file.name, <<".","c","s","v">>)
    THEN IF Raised(Decode(file.content))
         THEN [df |-> EmptyFrame, diagnostic |-> "Could not process purchase file"]
         ELSE parse_purchase_file(file.content)
    ELSE IF Returned(ReadExcel(file.content))
         THEN [df |-> ReadExcel(file.content).val, diagnostic |-> ""]
         ELSE [df |-> EmptyFrame, diagnostic |-> "Could not process purchase file"]

\* main(): the categories, by file name
IsB2B(file) == Contains(Lower(file.name), <<"b","2","b">>)

IsB2C(file) == ~IsB2B(file) /\ Contains(Lower(file.name), <<"b","2","c">>)

b2b_files == SelectSeq(uploaded_files, IsB2B)

b2c_files == SelectSeq(uploaded_files, IsB2C)

purchase_files ==
    SelectSeq(uploaded_files, LAMBDA f : ~IsB2B(f) /\ ~IsB2C(f))

\* max_files = max(len(b2b_files), len(b2c_files))
max_files ==
    IF Len(b2b_files) > Len(b2c_files) THEN Len(b2b_files) ELSE Len(b2c_files)

\* HasSalesFiles as a guard that any uploaded file passes
HasSalesFiles_AnyFile(b2b, b2c) == TRUE

\* the guard of the analysis: b2b_files or b2c_files
HasSalesFiles(b2b, b2c) == b2b # <<>> \/ b2c # <<>>

\* one pass of the month loop for index k (0-based): the analysis of the
\* month and the diagnostics shown, or the exception that leaves main()
MonthStep(k) ==
    LET b2bs == b2b_files
        b2cs == b2c_files
        purchases == purchase_files
        has_b2b == k < Len(b2bs)
        has_b2c == k < Len(b2cs)
        has_purchase == k < Len(purchases)
        b2b == IF has_b2b THEN parse_b2b_file(b2bs[k + 1].content)
               ELSE [df |-> EmptyFrame, diagnostic |-> ""]
        b2c == IF has_b2c THEN parse_b2c_file(b2cs[k + 1].content)
               ELSE [df |-> EmptyFrame, diagnostic |-> ""]
        purchase == IF has_purchase THEN ReadPurchaseFile(purchases[k + 1])
                    ELSE [df |-> EmptyFrame, diagnostic |-> ""]
        result == analyze_monthly_data(k + 1, b2b.df, b2c.df, purchase.df)
    IN IF has_b2b /\ Raised(Decode(b2bs[k + 1].content))
       THEN Raise("UnicodeDecodeError")
       ELSE IF has_b2c /\ Raised(Decode(b2cs[k + 1].content))
       THEN Raise("UnicodeDecodeError")
       ELSE IF Raised(result) THEN result
       ELSE Ok([analysis |-> result.val,
                diagnostics |->
                    {b2b.diagnostic, b2c.diagnostic, purchase.diagnostic} \ {""}])

-----------------------------------------------------------------------------
(* The files of the model.                                                 *)

\* a B2B export with every column; the header is padded as the portal pads it
B2BFull ==
    [name |-> <<"b","2","b","_","j","a","n",".","c","s","v">>,
     content |-> CsvContent(
        [columns |-> <<GstinRecipient, <<" ">> \o InvoiceValue \o <<" ">>,
                       TaxableValue, RateCol>>,
         rows |-> SampleRows])]

\* a B2B export without the Invoice Value column
B2BNoInvoice ==
    [name |-> <<"B","2","B","_","f","e","b",".","c","s","v">>,
     content |-> CsvContent(
        MakeTable({GstinRecipient, TaxableValue, RateCol}, SampleRows))]

\* a workbook uploaded as the B2B file
B2BWorkbook ==
    [name |-> <<"b","2","b",".","x","l","s","x">>,
     content |-> XlsxContent(MakeTable(Range(AllColumns), SampleRows))]

\* a B2B file pd.read_csv rejects
B2BBad ==
    [name |-> <<"b","2","b","_","b","a","d",".","c","s","v">>,
     content |-> BadCsvContent]

\* a B2C export with a non-standard rate
B2CFile ==
    [name |-> <<"b","2","c",".","c","s","v">>,
     content |-> CsvContent(MakeTable({TaxableValue, RateCol}, NonStandardRows))]

\* a purchase register as CSV, GSTIN first
PurchaseCsv ==
    [name |-> <<"p","u","r","c","h","a","s","e",".","c","s","v">>,
     content |-> CsvContent(MakeTable(Range(AllColumns), PurchaseRows))]

\* a GSTR2B workbook with Invoice Value only
PurchaseWorkbook ==
    [name |-> <<"g","s","t","r","2",".","x","l","s","x">>,
     content |-> XlsxContent(MakeTable({InvoiceValue}, PurchaseRows))]

\* a purchase file no reader accepts
PurchaseBad ==
    [name |-> <<"p","u","r","c","h","a","s","e",".","c","s","v">>,
     content |-> BadCsvContent]

Files == {B2BFull, B2BNoInvoice, B2BWorkbook, B2BBad, B2CFile, PurchaseCsv,
          PurchaseWorkbook, PurchaseBad}

-----------------------------------------------------------------------------
(* Spec: main().                                                           *)

NoSalesError == "Please upload at least one B2B or B2C sales file"

NoMetricsError == "Could not analyze GST data. Please check file format."

\* the form is filled: the date is date_input's, formatted '%Y-%m-%d'
Init ==
    /\ business_data \in
          {MakeProfile(t, DateStr(2020, 1, 1), <<>>) :
              t \in {"msme", "startup", "exporter"}}
    /\ now = DaysFromCivil(2025, 1, 1)
    /\ uploaded_files = <<>>
    /\ pc = "form"
    /\ i = 0
    /\ monthly_analyses = <<>>
    /\ diagnostics = {}
    /\ exception = "none"
    /\ dfs = Unused
    /\ analysis = NotRun
    /\ gst_metrics = NotRun
    /\ credit = NotRun
    /\ scheme_results = NotRun
    /\ loan_results = NotRun
    /\ calculator = NotRun

\* st.file_uploader: one more file
Upload(file) ==
    /\ pc = "form"
    /\ Len(uploaded_files) < MaxFiles
    /\ uploaded_files' = Append(uploaded_files, file)
    /\ UNCHANGED <<business_data, now, pc, i, monthly_analyses, diagnostics,
                   exception, dfs, analysis, gst_metrics, credit,
                   scheme_results, loan_results, calculator>>

\* the "Analyze GST Data" button, shown once files are uploaded
Analyze ==
    /\ pc = "form"
    /\ uploaded_files # <<>>
    /\ IF HasSalesFiles(b2b_files, b2c_files)
       THEN /\ pc' = "processing"
            /\ UNCHANGED diagnostics
       ELSE /\ pc' = "stopped"
            /\ diagnostics' = diagnostics \cup {NoSalesError}
    /\ i' = 0
    /\ monthly_analyses' = <<>>
    /\ UNCHANGED <<business_data, uploaded_files, now, exception, dfs,
                   analysis, gst_metrics, credit, scheme_results, loan_results,
                   calculator>>

\* one pass of the month loop
ProcessMonth ==
    /\ pc = "processing"
    /\ i < max_files
    /\ LET step == MonthStep(i)
       IN IF Raised(step)
          THEN /\ pc' = "crashed"
               /\ exception' = step.exc
               /\ UNCHANGED <<i, monthly_analyses, diagnostics>>
          ELSE /\ monthly_analyses' = Append(monthly_analyses, step.val.analysis)
               /\ diagnostics' = diagnostics \cup step.val.diagnostics
               /\ i' = i + 1
               /\ UNCHANGED <<pc, exception>>
    /\ UNCHANGED <<business_data, uploaded_files, now, dfs, analysis,
                   gst_metrics, credit, scheme_results, loan_results,
                   calculator>>

\* after the loop: calculate_aggregate_metrics and its guard
Aggregate ==
    /\ pc = "processing"
    /\ i >= max_files
    /\ gst_metrics' = calculate_aggregate_metrics(monthly_analyses)
    /\ IF IsEmptyDict(gst_metrics')
       THEN /\ pc' = "stopped"
            /\ diagnostics' = diagnostics \cup {NoMetricsError}
       ELSE /\ pc' = "assess"
            /\ UNCHANGED diagnostics
    /\ UNCHANGED <<business_data, uploaded_files, now, i, monthly_analyses,
                   exception, dfs, analysis, credit, scheme_results,
                   loan_results, calculator>>

\* the two engines
Assess ==
    /\ pc = "assess"
    /\ LET verdicts == assess_scheme_eligibility(business_data, gst_metrics)
       IN IF Raised(verdicts)
          THEN /\ pc' = "crashed"
               /\ exception' = verdicts.exc
               /\ UNCHANGED <<scheme_results, loan_results>>
          ELSE /\ scheme_results' = verdicts
               /\ loan_results' =
                     calculate_loan_eligibility(business_data, gst_metrics, now)
               /\ pc' = "panel"
               /\ UNCHANGED exception
    /\ UNCHANGED <<business_data, uploaded_files, now, i, monthly_analyses,
                   diagnostics, dfs, analysis, gst_metrics, credit,
                   calculator>>

\* st.slider(min_value, max_value, value): the value shown, or the
\* exception raised for a range that does not hold the value.  Within one
\* run of main() the slider returns its initial value: moving it reruns
\* main() with the button unpressed, and the panel is not drawn.
Slider(min_value, max_value, value) ==
    IF min_value > max_value \/ value < min_value \/ value > max_value
    THEN Raise("StreamlitAPIException")
    ELSE Ok(value)

\* the slider's max_value, int(loan_results['max_loan_amount'])
SliderMax(results) == Floor(results.max_loan_amount)

\* the slider's value, min(1000000, int(loan_results['max_loan_amount']))
SliderValue(results) ==
    IF 1000000 < SliderMax(results) THEN 1000000 ELSE SliderMax(results)

\* the loan calculator of the panel: the slider, then the EMI of the
\* requested amount at the assessment's rate and tenure
Calculator ==
    /\ pc = "panel"
    /\ LET requested_amount ==
               Slider(100000, SliderMax(loan_results), SliderValue(loan_results))
           monthly_rate == Div(loan_results.interest_rate, Whole(12 * 100))
           tenure_months == loan_results.max_tenure_years * 12
       IN IF Raised(requested_amount)
          THEN /\ pc' = "crashed"
               /\ exception' = requested_amount.exc
               /\ UNCHANGED calculator
          ELSE /\ calculator' =
                     [requested_amount |-> requested_amount.val,
                      monthly_rate |-> monthly_rate,
                      emi |-> Emi(Whole(requested_amount.val), monthly_rate,
                                  tenure_months),
                      total_interest |->
                          TotalInterest(
                              Emi(Whole(requested_amount.val), monthly_rate,
                                  tenure_months),
                              tenure_months, Whole(requested_amount.val))]
               /\ pc' = "summary"
               /\ UNCHANGED exception
    /\ UNCHANGED <<business_data, uploaded_files, now, i, monthly_analyses,
                   diagnostics, dfs, analysis, gst_metrics, credit,
                   scheme_results, loan_results>>

Next ==
    \/ \E file \in Files : Upload(file)
    \/ Analyze
    \/ ProcessMonth
    \/ Aggregate
    \/ Assess
    \/ Calculator

Spec == Init /\ [][Next]_vars


-----------------------------------------------------------------------------
(* Properties of main() (Spec).                                            *)

\* the upload holds no B2B and no B2C file
SalesFree ==
    Range(uploaded_files) \subseteq {PurchaseCsv, PurchaseWorkbook, PurchaseBad}

\* C5: a run with no B2B and no B2C file reports the input error and stops:
\* no monthly summary, no metrics, no eligibility verdict and no loan
\* assessment is ever produced in it; and calculate_aggregate_metrics on an
\* empty sequence returns an empty result rather than defaults.
C5_NoSalesStops ==
    /\ SalesFree =>
          /\ pc \in {"form", "stopped"}
          /\ monthly_analyses = <<>>
          /\ gst_metrics = NotRun
          /\ scheme_results = NotRun
          /\ loan_results = NotRun
          /\ pc = "stopped" => NoSalesError \in diagnostics
    /\ IsEmptyDict(calculate_aggregate_metrics(<<>>))

\* purchase files only, and the button pressed
C5_Witness ==
    /\ pc = "stopped"
    /\ uploaded_files # <<>>
    /\ SalesFree
    /\ NoSalesError \in diagnostics

\* C6: a parse failure of an uploaded file never halts the run: every run
\* that has at least one sales file proceeds to completion, no exception
\* leaves main(), and the only hard stop is the no-sales-data precondition.
C6_ParseFailureNeverHalts ==
    /\ pc # "crashed"
    /\ exception = "none"
    /\ pc = "stopped" => SalesFree

-----------------------------------------------------------------------------
(* SpecParse: the parse of one month's uploaded files by the month loop of *)
(* main(), followed by the month's analysis.                               *)

\* main(): the parse of month k's files, the tables and the diagnostics
\* shown, or the exception that leaves main()
ParseMonth(k) ==
    LET b2bs == b2b_files
        b2cs == b2c_files
        purchases == purchase_files
        has_b2b == k < Len(b2bs)
        has_b2c == k < Len(b2cs)
        has_purchase == k < Len(purchases)
        b2b == IF has_b2b THEN parse_b2b_file(b2bs[k + 1].content)
               ELSE [df |-> EmptyFrame, diagnostic |-> ""]
        b2c == IF has_b2c THEN parse_b2c_file(b2cs[k + 1].content)
               ELSE [df |-> EmptyFrame, diagnostic |-> ""]
        purchase == IF has_purchase THEN ReadPurchaseFile(purchases[k + 1])
                    ELSE [df |-> EmptyFrame, diagnostic |-> ""]
    IN IF has_b2b /\ Raised(Decode(b2bs[k + 1].content))
       THEN Raise("UnicodeDecodeError")
       ELSE IF has_b2c /\ Raised(Decode(b2cs[k + 1].content))
       THEN Raise("UnicodeDecodeError")
       ELSE Ok([dfs |-> [b2b |-> b2b.df, b2c |-> b2c.df,
                         purchase |-> purchase.df],
                diagnostics |->
                    {b2b.diagnostic, b2c.diagnostic, purchase.diagnostic} \ {""}])

\* the header of a file, each name written with blanks around it
PadColumns(table, lead, trail) ==
    [table EXCEPT !.columns =
        [k \in DOMAIN table.columns |-> lead \o table.columns[k] \o trail]]

HeaderPads == {<<>>, <<" ">>}

ColumnSets ==
    {Range(AllColumns), {GstinRecipient, TaxableValue, RateCol},
     {InvoiceValue, TaxableValue}, {TaxableValue}}

\* the tables of the uploaded files, headers padded or not
PaddedTables(rows) ==
    {PadColumns(MakeTable(cols, rows), lead, trail) :
        cols \in ColumnSets, lead \in HeaderPads, trail \in HeaderPads}

\* one month's upload: a sales file alone, or a B2B file and a purchase file
ParseUploads ==
    {<<[name |-> B2BFull.name, content |-> CsvContent(t)]>> :
        t \in PaddedTables(SampleRows)}
    \cup {<<[name |-> B2CFile.name, content |-> CsvContent(t)]>> :
        t \in PaddedTables(SampleRows)}
    \cup {<<B2BFull, [name |-> PurchaseCsv.name, content |-> CsvContent(t)]>> :
        t \in PaddedTables(PurchaseRows)}
    \cup {<<B2BFull, [name |-> PurchaseWorkbook.name, content |-> XlsxContent(t)]>> :
        t \in PaddedTables(PurchaseRows)}
    \cup {<<B2BBad>>, <<B2BWorkbook>>, <<B2BFull, PurchaseBad>>}

InitParse ==
    /\ uploaded_files \in ParseUploads
    /\ pc = "call"
    /\ dfs = Unused
    /\ analysis = NotRun
    /\ business_data = DefaultProfile
    /\ now = 0
    /\ i = 0
    /\ monthly_analyses = <<>>
    /\ diagnostics = {}
    /\ exception = "none"
    /\ gst_metrics = NotRun
    /\ credit = NotRun
    /\ scheme_results = NotRun
    /\ loan_results = NotRun
    /\ calculator = NotRun

\* the parse of the month's files
ParseUploaded ==
    /\ pc = "call"
    /\ LET parsed == ParseMonth(0)
       IN IF Raised(parsed)
          THEN /\ pc' = "crashed"
               /\ exception' = parsed.exc
               /\ UNCHANGED <<dfs, diagnostics>>
          ELSE /\ dfs' = parsed.val.dfs
               /\ diagnostics' = diagnostics \cup parsed.val.diagnostics
               /\ pc' = "parsed"
               /\ UNCHANGED exception
    /\ UNCHANGED <<business_data, uploaded_files, now, i, monthly_analyses,
                   analysis, gst_metrics, credit, scheme_results, loan_results,
                   calculator>>

\* the analysis of the parsed tables
AnalyzeParsed ==
    /\ pc = "parsed"
    /\ analysis' = analyze_monthly_data(1, dfs.b2b, dfs.b2c, dfs.purchase)
    /\ pc' = "done"
    /\ UNCHANGED <<business_data, uploaded_files, now, i, monthly_analyses,
                   diagnostics, exception, dfs, gst_metrics, credit,
                   scheme_results, loan_results, calculator>>

NextParse == ParseUploaded \/ AnalyzeParsed

SpecParse == InitParse /\ [][NextParse]_vars

\* no column name of the table has leading or trailing whitespace
Trimmed(df) == \A k \in DOMAIN df.columns : Strip(df.columns[k]) = df.columns[k]

\* C14: for every file kind (B2B, B2C and purchase) and every successfully
\* parsed file, no column name of the returned table has leading or trailing
\* whitespace; consequently a purchase file whose header is a
\* whitespace-padded "Taxable Value" contributes its sum to total_purchases.
C14_ColumnsTrimmed ==
    /\ pc \in {"parsed", "done"}
          => Trimmed(dfs.b2b) /\ Trimmed(dfs.b2c) /\ Trimmed(dfs.purchase)
    /\ (/\ pc = "done"
        /\ ~IsEmpty(dfs.purchase)
        /\ HasColumn(StripColumns(dfs.purchase), TaxableValue))
          => /\ Returned(analysis)
             /\ analysis.val.total_purchases =
                   SumSeq(FillNa0(Column(StripColumns(dfs.purchase), TaxableValue)))

-----------------------------------------------------------------------------
(* Properties of the month loop of main() (Spec).                          *)

\* len(df) of the table the month loop gets from a sales file
SalesRowsRead(file) ==
    IF file.content.format = "csv" THEN Len(file.content.table.rows) ELSE 0

\* len(df) of the table the month loop gets from a purchase file
PurchaseRowsRead(file) ==
    IF EndsWith(file.name, <<".","c","s","v">>)
    THEN IF StartsWithGstin(file.content)
         THEN Len(file.content.table.rows) ELSE 0
    ELSE IF file.content.format = "xlsx"
         THEN Len(file.content.table.rows) ELSE 0

\* the run has left the month loop, by its end or by an exception
LoopLeft == pc \in {"assess", "panel", "summary", "crashed"}

\* C15: in a run with b B2B files, c B2C files and p purchase files
\* (b + c >= 1) the pipeline appends exactly max(b, c) monthly summaries,
\* pairing the i-th file of each kind, and filing_frequency = max(b, c): a
\* month whose sales files all failed to parse is still counted, and purchase
\* files with index >= max(b, c) are never read.
C15_MonthsCounted ==
    LoopLeft =>
        /\ Len(monthly_analyses) = max_files
        /\ gst_metrics # NotRun
        /\ gst_metrics.filing_frequency = max_files
        /\ \A k \in 1..max_files :
              /\ monthly_analyses[k].b2b_transactions =
                    (IF k <= Len(b2b_files)
                     THEN SalesRowsRead(b2b_files[k]) ELSE 0)
              /\ monthly_analyses[k].b2c_transactions =
                    (IF k <= Len(b2c_files)
                     THEN SalesRowsRead(b2c_files[k]) ELSE 0)
              /\ monthly_analyses[k].purchase_transactions =
                    (IF k <= Len(purchase_files)
                     THEN PurchaseRowsRead(purchase_files[k]) ELSE 0)
        /\ ("Could not parse purchase file" \in diagnostics)
              => \E k \in 1..max_files :
                    k <= Len(purchase_files) /\ purchase_files[k] = PurchaseBad

-----------------------------------------------------------------------------
(* Properties of the loan panel of main() (Spec).                          *)

\* the run has an assessment on the panel
Assessed == pc \in {"panel", "summary"} \/ calculator # NotRun

\* C16: in every loan assessment the monthly rate is strictly positive (the
\* interest rate is floored at 8.5), so the EMI is always computed by the
\* amortizing formula and the zero-rate branch EMI = P/n is never taken,
\* neither in calculate_loan_eligibility nor in the what-if recompute that
\* reuses the assessment's rate.
C16_AmortizingOnly ==
    /\ Assessed =>
          /\ loan_results.interest_rate[1] * 10 >= 85 * loan_results.interest_rate[2]
          /\ loan_results.monthly_emi.monthly_rate[1] > 0
          /\ loan_results.monthly_emi.monthly_rate[2] > 0
          /\ loan_results.monthly_emi.formula = "amortizing"
          /\ loan_results.total_interest.emi.formula = "amortizing"
    /\ calculator # NotRun =>
          /\ calculator.monthly_rate[1] * 1200 * loan_results.interest_rate[2]
                = loan_results.interest_rate[1] * calculator.monthly_rate[2]
          /\ calculator.monthly_rate[1] > 0
          /\ calculator.monthly_rate[2] > 0
          /\ calculator.emi.formula = "amortizing"
          /\ calculator.total_interest.emi.formula = "amortizing"

\* an assessment at the floor of 8.5, recomputed by the calculator
C16_Witness ==
    /\ pc = "summary"
    /\ loan_results.interest_rate = <<17, 2>>
    /\ calculator # NotRun
    /\ calculator.emi.formula = "amortizing"

\* the interest rate before the floor, in tenths of a percent, with a margin
\* adjustment of 0 or -0.5 only
RateTenthsWithoutPenalty ==
    LET grade == loan_results.credit_grade
        t == business_data.business_type
        pm == gst_metrics.profit_margin_estimate
        c == gst_metrics.gst_compliance_score
    IN (IF grade = "excellent" THEN 90 ELSE IF grade = "good" THEN 115
        ELSE IF grade = "fair" THEN 140 ELSE 175)
       + (IF t = "startup" THEN 15 ELSE IF t = "exporter" THEN -5 ELSE 0)
       + (IF pm[1] > 20 * pm[2] THEN -5 ELSE 0)
       + (IF c > 80 THEN -5 ELSE IF c < 50 THEN 10 ELSE 0)

\* C17: for metrics produced by calculate_aggregate_metrics the profit-margin
\* adjustment to the interest rate is never a penalty: profit_margin_estimate
\* is never below 5, so the "+1.0 if profit_margin < 5" branch is not taken
\* in the pipeline and the margin adjustment is always 0 or -0.5.
C17_NoMarginPenalty ==
    Assessed =>
        LET pm == gst_metrics.profit_margin_estimate
            rate == loan_results.interest_rate
        IN /\ pm[1] >= 5 * pm[2]
           /\ loan_results.profit_margin = pm
           /\ RateTenthsWithoutPenalty >= 85
                 => rate[1] * 10 = RateTenthsWithoutPenalty * rate[2]
           /\ RateTenthsWithoutPenalty < 85 => rate = <<17, 2>>

\* purchases above sales: the margin is clamped to 5 and the assessment
\* carries no margin penalty
C17_Witness ==
    /\ pc = "panel"
    /\ gst_metrics.total_sales > 0
    /\ gst_metrics.total_purchases > gst_metrics.total_sales
    /\ gst_metrics.profit_margin_estimate = <<5, 1>>
    /\ loan_results.interest_rate[1] * 10
          = RateTenthsWithoutPenalty * loan_results.interest_rate[2]

\* C18: whenever a run reaches the loan panel the calculator's principal
\* range is well-formed: its minimum 100,000 does not exceed its maximum
\* int(max_loan_amount), and its initial value
\* min(1,000,000, int(max_loan_amount)) lies within that range, for every
\* metrics record the pipeline can produce (annual_turnover = 0 included).
C18_SliderRange ==
    pc \in {"panel", "summary"} =>
        /\ 100000 <= SliderMax(loan_results)
        /\ SliderValue(loan_results) >= 100000
        /\ SliderValue(loan_results) <= SliderMax(loan_results)


=============================================================================
